---- MODULE Spec2Model ----
(***************************************************************************)
(* A model of the cross-thread scheduling core of GumV8Platform            *)
(* (bindings/gumjs/gumv8platform.cpp): operation handles (schedule,        *)
(* Perform, Cancel, Await), the JS main-context loop, the thread pool,     *)
(* the Platform lock and the per-operation condition variable, and the     *)
(* foreground task-runner registry.                                        *)
(***************************************************************************)
EXTENDS Integers, Sequences, FiniteSets, TLC

(* ------------------------------ bounds --------------------------------- *)

\* Operations scheduled by clients (ScheduleOnJSThread, ScheduleOnThreadPool)
\* in one run of the model.
MaxOps == 1

\* Cap on the per-operation invocation counter.
MaxRuns == 2

\* Calls of CallDelayedOnWorkerThread in one run of the model.
MaxDelayedCalls == 1

\* Calls of ScheduleOnJSThreadDelayed (delay, priority, f) by clients in one
\* run of the model.
MaxForegroundOps == 2

\* Direct invocations of Dispose in one run of the model.
MaxDisposeCalls == 2

\* Tasks posted through foreground task runners in one run of the model.
MaxPosted == 1

\* The last reading of the clock, in microseconds, from which time passes.
MaxClock == 1500

\* Pages of address space the memory backend allocates from.
MaxPages == 3

(* ------------------------------ threads -------------------------------- *)

\* Threads that call the public API (ScheduleOn*, Cancel, Await).
Clients == {"c1", "c2", "c3"}

\* The thread iterating the scheduler's JS GMainContext.
JS == "js"

\* A thread of the scheduler's thread pool.
Worker == "worker"

Executors == {JS, Worker}

Threads == Clients \cup Executors

NoThread == "none"

\* The Isolate pointers GetForegroundTaskRunner is called with.
Isolates == {"i1", "i2", "i3"}

\* The GLib priorities the Platform gives its sources: a lower number is
\* dispatched first.
G_PRIORITY_HIGH == -100

G_PRIORITY_DEFAULT == 0

G_PRIORITY_LOW == 300

\* delay_in_milliseconds: zero (an idle source) or not (a timeout source).
Delays == {0, 1}

VARIABLES
  ops,            \* sequence of operation objects, indexed by creation order
  js_operations,  \* GumV8Platform::js_operations
  jobs,           \* jobs pushed on the thread pool and not yet taken
  lock,           \* holder of GumV8Platform::lock, or NoThread
  pc,             \* where each thread is
  arg,            \* the operation a thread is working on (0: none)
  entryTerminal,  \* per thread: the flag was set when its Await took the lock
  delayedCalls,   \* what each ScheduleOnThreadPoolDelayed call created and returned
  foreground_runners,  \* GumV8Platform::foreground_runners: per isolate, whether the
                       \* map holds an entry and the runner it points to (0: null)
  runnersCreated,      \* GumV8ForegroundTaskRunner objects constructed so far
  isolateArg,          \* per thread: the isolate of its GetForegroundTaskRunner call
  runner,              \* per thread: the local variable runner of that call
  returned,            \* per isolate: the runners GetForegroundTaskRunner returned
  bundles,             \* objc_bundle, java_bundle, debug_bundle, runtime_bundle:
                       \* "null" or "live"
  teardown,            \* what Dispose and the destructor have done, in order
  clock,               \* g_get_monotonic_time () - start_time, in microseconds
  idleTasks,           \* the idle tasks posted: when, and when run with what deadline
  mapped,              \* the pages gum_memory_allocate has handed out
  cloak,               \* the pages in the cloak's ranges
  held,                \* per page: the ranges holding it that Allocate returned
                       \* and no Free has returned true for
  mem                  \* per thread: the range of its Allocate or Free call

vars == <<ops, js_operations, jobs, lock, pc, arg, entryTerminal, delayedCalls,
          foreground_runners, runnersCreated, isolateArg, runner, returned,
          bundles, teardown, clock, idleTasks, mapped, cloak, held, mem>>

\* The state of the operations, pc apart.
opVars == <<ops, js_operations, jobs, lock, arg, entryTerminal, delayedCalls>>

\* The runner registry and the calls of GetForegroundTaskRunner.
runnerVars == <<foreground_runners, runnersCreated, isolateArg, runner, returned>>

\* The engine's state: bundles, isolate, V8.
engineVars == <<bundles, teardown>>

\* The Platform's clock and the idle tasks run with it.
clockVars == <<clock, idleTasks>>

\* The memory backend and the cloak.
memVars == <<mapped, cloak, held, mem>>

\* The state outside the operations.
nonOpVars == <<runnerVars, engineVars, clockVars, memVars>>

OpIds == 1..Len(ops)

(* --------------------------- operation objects ------------------------- *)

\* GumV8MainContextOperation as constructed: completed (false), the GSource.
\* state records which method last executed "completed = true".
\* func: "work" is a client's callable, "hop" the lambda of
\* ScheduleOnThreadPoolDelayed, "task" the lambda of CallDelayedOnWorkerThread.
\* priority and delay are those of the source.
NewMainContextOperation(delay, priority, f, handed) ==
  [kind |-> "main", func |-> f, completed |-> FALSE, state |-> "Pending",
   source |-> "new", runs |-> 0, cancelledPending |-> FALSE,
   handed |-> handed, submitted |-> FALSE, parent |-> 0,
   priority |-> priority, delay |-> delay]

\* GumV8ThreadPoolOperation as constructed: completed (false), no source.
\* submitted: its job has been pushed on the thread pool; parent: the
\* operation whose func scheduled it (0: none).
NewThreadPoolOperation(f, handed, submitted, parent) ==
  [kind |-> "pool", func |-> f, completed |-> FALSE, state |-> "Pending",
   source |-> "none", runs |-> 0, cancelledPending |-> FALSE,
   handed |-> handed, submitted |-> submitted, parent |-> parent,
   priority |-> 0, delay |-> 0]

\* The model's bound on the operations clients schedule.
CanCreate ==
  Cardinality({o \in OpIds : ops[o].func = "work"}) < MaxOps

\* Threads blocked in g_cond_wait on operation o's cond.
Waiters(o) == {t \in Threads : pc[t] = "await_wait" /\ arg[t] = o}

\* Invocations of o's func in progress.
Active(o) == Cardinality({e \in Executors : pc[e] = "perform_func" /\ arg[e] = o})

\* The value of a thread's range when it is in no Allocate or Free call.
NoRange == [base |-> 0, size |-> 0]

\* The address space, in pages, and the sizes asked for.
Pages == 1..MaxPages

Sizes == {1, 2}

\* The pages of the range [base, base + size).
RangePages(r) == r.base .. (r.base + r.size - 1)

\* The ranges that lie in the address space.
Ranges ==
  {r \in [base : Pages, size : Sizes] : RangePages(r) \subseteq Pages}

\* Where a thread inside Dispose can be.
DisposePcs ==
  {"dispose_bundles", "dispose_isolate", "dispose_lock", "dispose_runners",
   "dispose_v8", "dispose_shutdown"}

\* The bundles of the Platform, in the order Dispose clears them. The
\* constructor sets objc_bundle and java_bundle to NULL and InitRuntime creates
\* the other two.
Bundles == {"objc_bundle", "java_bundle", "debug_bundle", "runtime_bundle"}

(* ------------------------ condition variable --------------------------- *)

\* g_cond_signal (&cond): if threads are waiting on o's cond, one of them is
\* unblocked; pcs is the resulting pc function.
CondSignal(o, pcs) ==
  IF Waiters(o) = {}
    THEN {pcs}
    ELSE {[pcs EXCEPT ![w] = "await_woken"] : w \in Waiters(o)}

Init ==
  /\ ops = <<>>
  /\ js_operations = {}
  /\ jobs = {}
  /\ lock = NoThread
  /\ pc = [t \in Threads |-> "idle"]
  /\ arg = [t \in Threads |-> 0]
  /\ entryTerminal = [t \in Threads |-> FALSE]
  /\ delayedCalls = <<>>
  /\ foreground_runners = [i \in Isolates |-> [present |-> FALSE, ptr |-> 0]]
  /\ runnersCreated = 0
  /\ isolateArg = [t \in Threads |-> "none"]
  /\ runner = [t \in Threads |-> 0]
  /\ returned = [i \in Isolates |-> {}]
  /\ bundles = [b \in Bundles |->
                 IF b \in {"debug_bundle", "runtime_bundle"} THEN "live" ELSE "null"]
  /\ teardown = <<>>
  /\ clock = 0
  /\ idleTasks = <<>>
  /\ mapped = {}
  /\ cloak = {}
  /\ held = [p \in Pages |-> 0]
  /\ mem = [t \in Threads |-> NoRange]

(* --------------------------- scheduling -------------------------------- *)

\* ScheduleOnJSThreadDelayed up to the locker: the GSource and the operation
\* are created and the Platform lock is acquired. pre holds the operations
\* the caller constructed before the call.
ScheduleOnJSThreadDelayedLock(t, delay, priority, f, next, pre) ==
  /\ lock = NoThread
  /\ lock' = t
  /\ ops' = Append(ops \o pre,
                   NewMainContextOperation(delay, priority, f, FALSE))
  /\ pc' = [pc EXCEPT ![t] = next]
  /\ arg' = [arg EXCEPT ![t] = Len(ops) + Len(pre) + 1]
  /\ UNCHANGED <<js_operations, jobs, entryTerminal, delayedCalls, nonOpVars>>

\* The rest of ScheduleOnJSThreadDelayed: the operation is inserted in
\* js_operations, the lock released, the callback set and the source attached
\* to the JS context; handed says whether the caller keeps the handle.
ScheduleOnJSThreadDelayedAttach(t, handed) ==
  /\ lock = t
  /\ js_operations' = js_operations \cup {arg[t]}
  /\ lock' = NoThread
  /\ ops' = [ops EXCEPT ![arg[t]].source = "attached",
                        ![arg[t]].handed = handed]
  /\ pc' = [pc EXCEPT ![t] = "idle"]
  /\ arg' = [arg EXCEPT ![t] = 0]
  /\ UNCHANGED <<jobs, entryTerminal>>

\* ScheduleOnThreadPool: a pool operation is created and its job pushed.
ScheduleOnThreadPool(f, handed, parent) ==
  /\ ops' = Append(ops, NewThreadPoolOperation(f, handed, TRUE, parent))
  /\ jobs' = jobs \cup {Len(ops) + 1}

\* A client calls ScheduleOnJSThread (f): work on the JS thread, that is
\* ScheduleOnJSThreadDelayed (0, G_PRIORITY_DEFAULT, f).
ScheduleOnJSThread(t) ==
  /\ pc[t] = "idle"
  /\ CanCreate
  /\ ScheduleOnJSThreadDelayedLock(t, 0, G_PRIORITY_DEFAULT, "work",
                                   "schedule_insert", <<>>)

ScheduleOnJSThreadReturn(t) ==
  /\ pc[t] = "schedule_insert"
  /\ ScheduleOnJSThreadDelayedAttach(t, TRUE)
  /\ UNCHANGED <<delayedCalls, nonOpVars>>

\* A client calls ScheduleOnThreadPool (f) and keeps the handle.
ClientScheduleOnThreadPool(t) ==
  /\ pc[t] = "idle"
  /\ CanCreate
  /\ ScheduleOnThreadPool("work", TRUE, 0)
  /\ UNCHANGED <<js_operations, lock, pc, arg, entryTerminal, delayedCalls, nonOpVars>>

(* --------------------- delayed worker-thread tasks --------------------- *)

\* CallOnWorkerThread: ScheduleOnThreadPool of the lambda running the task;
\* the handle is dropped.
CallOnWorkerThread(t) ==
  /\ pc[t] = "idle"
  /\ Cardinality({o \in OpIds : ops[o].func = "task" /\ ops[o].parent = 0
                                 /\ ops[o].submitted}) < MaxDelayedCalls
  /\ ScheduleOnThreadPool("task", FALSE, 0)
  /\ UNCHANGED <<js_operations, lock, pc, arg, entryTerminal, delayedCalls, nonOpVars>>

\* Calls of ScheduleOnThreadPoolDelayed begun so far.
DelayedBegun == Cardinality({o \in OpIds : ops[o].func = "hop"})

\* CallDelayedOnWorkerThread calls ScheduleOnThreadPoolDelayed, which
\* constructs a GumV8ThreadPoolOperation, op, that is never pushed, and then
\* calls ScheduleOnJSThreadDelayed (delay, G_PRIORITY_HIGH, lambda).
ScheduleOnThreadPoolDelayed(t) ==
  /\ pc[t] = "idle"
  /\ DelayedBegun < MaxDelayedCalls
  /\ \E delay \in Delays :
       ScheduleOnJSThreadDelayedLock(t, delay, G_PRIORITY_HIGH, "hop",
         "delayed_insert", <<NewThreadPoolOperation("task", FALSE, FALSE, 0)>>)

\* The value a caller reads after ScheduleOnThreadPoolDelayed has flowed off
\* its end without a return statement: indeterminate. 0 is a handle that
\* refers to no operation; the bits may also be those of one of the two
\* handles the function built, op (orphan) and child_op (hop).
IndeterminateHandle(orphan, hop) == {0, orphan, hop}

\* The rest of ScheduleOnJSThreadDelayed, then ScheduleOnThreadPoolDelayed
\* ends without returning a value and CallDelayedOnWorkerThread drops what
\* it got.
ScheduleOnThreadPoolDelayedEnd(t) ==
  /\ pc[t] = "delayed_insert"
  /\ ScheduleOnJSThreadDelayedAttach(t, FALSE)
  /\ \E h \in IndeterminateHandle(arg[t] - 1, arg[t]) :
       delayedCalls' = Append(delayedCalls,
         [orphan |-> arg[t] - 1, hop |-> arg[t], handle |-> h])
  /\ UNCHANGED nonOpVars

(* ------------------------------ Perform -------------------------------- *)

\* The sources attached to the JS context and not yet picked by the loop.
\* Operations are numbered in the order their sources were attached.
AttachedSources ==
  {o \in OpIds : ops[o].kind = "main" /\ ops[o].source = "attached"}

\* The sources the running iteration of the loop picked and has not
\* dispatched yet.
QueuedSources == {o \in OpIds : ops[o].source = "queued"}

\* The sets of sources an iteration of the loop may find ready: every idle
\* source (delay 0) is, a timeout source is once its time has passed.
ReadySets ==
  {{o \in AttachedSources : ops[o].delay = 0} \cup D :
     D \in SUBSET {o \in AttachedSources : ops[o].delay # 0}} \ {{}}

\* What an iteration dispatches: of the ready sources R, those of the
\* highest priority (the lowest number).
ReadyBatch(R) ==
  {o \in R : \A p \in R : ops[o].priority <= ops[p].priority}

\* The sets of sources the loop may be dispatching from: what is left of the
\* running iteration, or the pick of a new iteration.
DispatchBatches ==
  IF QueuedSources # {}
    THEN {QueuedSources}
    ELSE {ReadyBatch(R) : R \in ReadySets}

\* Mutant: the loop takes any source of its iteration.
DispatchAny(o, B) == TRUE

\* The loop dispatches the sources of an iteration in the order of the
\* context's source list, which for one priority is the order of attachment.
DispatchFirst(o, B) == \A p \in B : o <= p

\* The JS main loop dispatches the next source of its iteration:
\* PerformMainContextOperation calls Perform, which calls func.
Dispatch(o) ==
  /\ pc[JS] = "idle"
  /\ o \in OpIds
  /\ ops[o].runs < MaxRuns
  /\ \E B \in DispatchBatches :
       /\ o \in B
       /\ DispatchFirst(o, B)
       /\ ops' = [p \in OpIds |->
                   IF p = o
                     THEN [ops[p] EXCEPT !.source = "dispatching",
                                         !.runs = @ + 1]
                     ELSE IF p \in B
                       THEN [ops[p] EXCEPT !.source = "queued"]
                       ELSE ops[p]]
  /\ pc' = [pc EXCEPT ![JS] = "perform_func"]
  /\ arg' = [arg EXCEPT ![JS] = o]
  /\ UNCHANGED <<js_operations, jobs, lock, entryTerminal, delayedCalls, nonOpVars>>

\* A pool thread takes a job: PerformThreadPoolOperation calls Perform, which
\* calls func.
TakeJob(o) ==
  /\ pc[Worker] = "idle"
  /\ o \in jobs
  /\ jobs' = jobs \ {o}
  /\ ops' = [ops EXCEPT ![o].runs = @ + 1]
  /\ pc' = [pc EXCEPT ![Worker] = "perform_func"]
  /\ arg' = [arg EXCEPT ![Worker] = o]
  /\ UNCHANGED <<js_operations, lock, entryTerminal, delayedCalls, nonOpVars>>

\* MonotonicallyIncreasingTime () when the clock reads delta microseconds:
\* delta / 1000 in whole milliseconds, then divided by 1000.0 to seconds. Times
\* in seconds are counted here in thirds of a microsecond, which makes the
\* milliseconds and the sixtieth of a second whole numbers.
MonotonicallyIncreasingTime(delta) == (delta \div 1000) * 3000

\* Mutant: the deadline is the time of the call.
IdleDeadlineNoBudget(delta) == MonotonicallyIncreasingTime(delta)

\* Run (IdleTask *): deadline_in_seconds =
\* platform->MonotonicallyIncreasingTime () + (1.0 / 60.0).
IdleDeadline(delta) == MonotonicallyIncreasingTime(delta) + 50000

\* Run (IdleTask *) for operation o: task->Run (deadline_in_seconds).
RunIdleTask(o) ==
  [k \in DOMAIN idleTasks |->
     IF idleTasks[k].op = o
       THEN [idleTasks[k] EXCEPT !.ran = TRUE, !.at = clock,
                                 !.deadline = IdleDeadline(clock)]
       ELSE idleTasks[k]]

\* func () returns. The lambda of ScheduleOnThreadPoolDelayed calls
\* ScheduleOnThreadPool (f) and drops the handle. The lambda of the destructor
\* calls Dispose, modelled step by step further down.
FuncReturns(e) ==
  /\ pc[e] = "perform_func"
  /\ ops[arg[e]].func # "dispose"
  /\ IF ops[arg[e]].func = "hop"
       THEN ScheduleOnThreadPool("task", FALSE, arg[e])
       ELSE UNCHANGED <<ops, jobs>>
  /\ idleTasks' = IF ops[arg[e]].func = "idle_run"
                    THEN RunIdleTask(arg[e])
                    ELSE idleTasks
  /\ pc' = [pc EXCEPT ![e] = "perform_lock"]
  /\ UNCHANGED <<js_operations, lock, arg, entryTerminal, delayedCalls,
                 runnerVars, engineVars, clock, memVars>>

\* Perform: GumV8PlatformLocker locker (platform).
PerformLock(e) ==
  /\ pc[e] = "perform_lock"
  /\ lock = NoThread
  /\ lock' = e
  /\ pc' = [pc EXCEPT ![e] = "perform_mark"]
  /\ UNCHANGED <<ops, js_operations, jobs, arg, entryTerminal, delayedCalls, nonOpVars>>

\* Perform: completed = true; g_cond_signal (&cond); the locker is released.
PerformMark(e) ==
  /\ pc[e] = "perform_mark"
  /\ lock = e
  /\ ops' = [ops EXCEPT ![arg[e]].completed = TRUE,
                        ![arg[e]].state = "Completed"]
  /\ pc' \in CondSignal(arg[e],
       [pc EXCEPT ![e] = IF e = JS THEN "perform_return" ELSE "release_pool"])
  /\ lock' = NoThread
  /\ UNCHANGED <<js_operations, jobs, arg, entryTerminal, delayedCalls, nonOpVars>>

\* Mutant: the callback returns TRUE (G_SOURCE_CONTINUE) and the source stays.
PerformMainContextOperationResultContinue == TRUE

\* What PerformMainContextOperation returns to the main loop: FALSE, the
\* source is removed (G_SOURCE_REMOVE).
PerformMainContextOperationResult == FALSE

\* PerformMainContextOperation returns. On FALSE the loop destroys the source
\* and drops the callback data, which runs ReleaseMainContextOperation on this
\* thread; the same when Cancel destroyed the source during the dispatch.
PerformMainContextOperationReturn ==
  /\ pc[JS] = "perform_return"
  /\ LET o == arg[JS]
         keep == PerformMainContextOperationResult
                   /\ ops[o].source = "dispatching"
     IN /\ ops' = [ops EXCEPT ![o].source =
                      IF keep THEN "attached" ELSE "destroyed"]
        /\ pc' = [pc EXCEPT ![JS] = IF keep THEN "idle" ELSE "release_lock"]
        /\ arg' = [arg EXCEPT ![JS] = IF keep THEN 0 ELSE o]
  /\ UNCHANGED <<js_operations, jobs, lock, entryTerminal, delayedCalls, nonOpVars>>

\* Mutant: ReleaseMainContextOperation without the locker: the operation is
\* erased whoever holds the Platform lock.
ReleaseMainContextOperationNoLocker(t) ==
  /\ pc[t] = "release_lock"
  /\ js_operations' = js_operations \ {arg[t]}
  /\ pc' = [pc EXCEPT ![t] = IF t = JS THEN "idle" ELSE "cancel_lock"]
  /\ arg' = [arg EXCEPT ![t] = IF t = JS THEN 0 ELSE @]
  /\ UNCHANGED <<ops, jobs, lock, entryTerminal, delayedCalls, nonOpVars>>

\* ReleaseMainContextOperation: GumV8PlatformLocker locker (platform).
ReleaseMainContextOperationLock(t) ==
  /\ pc[t] = "release_lock"
  /\ lock = NoThread
  /\ lock' = t
  /\ pc' = [pc EXCEPT ![t] = "release_erase"]
  /\ UNCHANGED <<ops, js_operations, jobs, arg, entryTerminal, delayedCalls, nonOpVars>>

\* Mutant: the release callback deletes the pointer and leaves js_operations
\* as it is.
ReleaseMainContextOperationKeeps(t) ==
  /\ pc[t] = "release_erase"
  /\ lock = t
  /\ lock' = NoThread
  /\ pc' = [pc EXCEPT ![t] = IF t = JS THEN "idle" ELSE "cancel_lock"]
  /\ arg' = [arg EXCEPT ![t] = IF t = JS THEN 0 ELSE @]
  /\ UNCHANGED <<ops, js_operations, jobs, entryTerminal, delayedCalls, nonOpVars>>

\* ReleaseMainContextOperation: js_operations.erase (op), unlock, delete ptr.
\* On the JS thread the loop goes on; in Cancel, g_source_destroy returns.
ReleaseMainContextOperationErase(t) ==
  /\ pc[t] = "release_erase"
  /\ lock = t
  /\ js_operations' = js_operations \ {arg[t]}
  /\ lock' = NoThread
  /\ pc' = [pc EXCEPT ![t] = IF t = JS THEN "idle" ELSE "cancel_lock"]
  /\ arg' = [arg EXCEPT ![t] = IF t = JS THEN 0 ELSE @]
  /\ UNCHANGED <<ops, jobs, entryTerminal, delayedCalls, nonOpVars>>

\* ReleaseThreadPoolOperation: delete ptr.
ReleaseThreadPoolOperation ==
  /\ pc[Worker] = "release_pool"
  /\ pc' = [pc EXCEPT ![Worker] = "idle"]
  /\ arg' = [arg EXCEPT ![Worker] = 0]
  /\ UNCHANGED <<ops, js_operations, jobs, lock, entryTerminal, delayedCalls, nonOpVars>>

(* ------------------------------- Cancel -------------------------------- *)

\* Mutant: Cancel leaves the source alone.
GSourceDestroySkipped(s) == s

\* g_source_destroy (source) on a source in state s: an attached source is
\* removed from its context and will not be dispatched; a source whose
\* callback is running is marked destroyed; a destroyed source stays so.
GSourceDestroy(s) ==
  CASE s \in {"attached", "queued"} -> "destroyed"
    [] s = "dispatching" -> "dispatching_destroyed"
    [] OTHER -> s

\* Mutant: Cancel constructs its locker first and destroys the source inside
\* the locked scope.
MainContextOperationCancelLocksFirst(t, o) ==
  /\ pc[t] = "idle"
  /\ o \in OpIds
  /\ ops[o].kind = "main"
  /\ ops[o].handed
  /\ lock = NoThread
  /\ lock' = t
  /\ LET s == ops[o].source
         d == GSourceDestroy(s)
     IN /\ ops' = [ops EXCEPT
                     ![o].source = d,
                     ![o].cancelledPending =
                        @ \/ (s \in {"attached", "queued"} /\ ops[o].runs = 0)]
        /\ pc' = [pc EXCEPT ![t] =
                     IF s \in {"attached", "queued"} /\ d = "destroyed"
                       THEN "release_lock" ELSE "cancel_mark"]
  /\ arg' = [arg EXCEPT ![t] = o]
  /\ UNCHANGED <<js_operations, jobs, entryTerminal, delayedCalls, nonOpVars>>

\* Mutant: Cancel drops the callback data of a source that is destroyed
\* already as well, so the release callback runs again.
MainContextOperationCancelReleasesAgain(t, o) ==
  /\ pc[t] = "idle"
  /\ o \in OpIds
  /\ ops[o].kind = "main"
  /\ ops[o].handed
  /\ LET s == ops[o].source
         d == GSourceDestroy(s)
     IN /\ ops' = [ops EXCEPT
                     ![o].source = d,
                     ![o].cancelledPending =
                        @ \/ (s \in {"attached", "queued"} /\ ops[o].runs = 0)]
        /\ pc' = [pc EXCEPT ![t] =
                     IF d = "destroyed" THEN "release_lock" ELSE "cancel_lock"]
  /\ arg' = [arg EXCEPT ![t] = o]
  /\ UNCHANGED <<js_operations, jobs, lock, entryTerminal, delayedCalls, nonOpVars>>

\* GumV8MainContextOperation::Cancel, g_source_destroy (source). Destroying an
\* attached source drops its callback data, which runs
\* ReleaseMainContextOperation on the calling thread before
\* g_source_destroy returns; during a dispatch the loop holds the callback
\* data and drops it when the callback has returned.
MainContextOperationCancel(t, o) ==
  /\ pc[t] = "idle"
  /\ o \in OpIds
  /\ ops[o].kind = "main"
  /\ ops[o].handed
  /\ LET s == ops[o].source
         d == GSourceDestroy(s)
     IN /\ ops' = [ops EXCEPT
                     ![o].source = d,
                     ![o].cancelledPending =
                        @ \/ (s \in {"attached", "queued"} /\ ops[o].runs = 0)]
        /\ pc' = [pc EXCEPT ![t] =
                     IF s \in {"attached", "queued"} /\ d = "destroyed"
                       THEN "release_lock" ELSE "cancel_lock"]
  /\ arg' = [arg EXCEPT ![t] = o]
  /\ UNCHANGED <<js_operations, jobs, lock, entryTerminal, delayedCalls, nonOpVars>>

\* Cancel: GumV8PlatformLocker locker (platform).
MainContextOperationCancelLock(t) ==
  /\ pc[t] = "cancel_lock"
  /\ lock = NoThread
  /\ lock' = t
  /\ pc' = [pc EXCEPT ![t] = "cancel_mark"]
  /\ UNCHANGED <<ops, js_operations, jobs, arg, entryTerminal, delayedCalls, nonOpVars>>

\* Cancel: completed = true; g_cond_signal (&cond); the locker is released and
\* Cancel returns.
MainContextOperationCancelMark(t) ==
  /\ pc[t] = "cancel_mark"
  /\ lock = t
  /\ ops' = [ops EXCEPT ![arg[t]].completed = TRUE,
                        ![arg[t]].state = "Cancelled"]
  /\ pc' \in CondSignal(arg[t], [pc EXCEPT ![t] = "idle"])
  /\ arg' = [arg EXCEPT ![t] = 0]
  /\ lock' = NoThread
  /\ UNCHANGED <<js_operations, jobs, entryTerminal, delayedCalls, nonOpVars>>

\* Mutant: Cancel on a pool operation withdraws the job and completes it.
ThreadPoolOperationCancelWithdraws(o) ==
  /\ jobs' = jobs \ {o}
  /\ ops' = [ops EXCEPT ![o].completed = TRUE, ![o].state = "Cancelled"]

\* The body of GumV8ThreadPoolOperation::Cancel: empty.
ThreadPoolOperationCancelBody(o) ==
  UNCHANGED <<ops, jobs>>

\* A client calls Cancel on a pool operation.
ThreadPoolOperationCancel(t, o) ==
  /\ pc[t] = "idle"
  /\ o \in OpIds
  /\ ops[o].kind = "pool"
  /\ ops[o].handed
  /\ ThreadPoolOperationCancelBody(o)
  /\ pc' = [pc EXCEPT ![t] = "cancel_pool"]
  /\ arg' = [arg EXCEPT ![t] = o]
  /\ UNCHANGED <<js_operations, lock, entryTerminal, delayedCalls, nonOpVars>>

\* Cancel on a pool operation returns.
ThreadPoolOperationCancelReturn(t) ==
  /\ pc[t] = "cancel_pool"
  /\ pc' = [pc EXCEPT ![t] = "idle"]
  /\ arg' = [arg EXCEPT ![t] = 0]
  /\ UNCHANGED <<ops, js_operations, jobs, lock, entryTerminal, delayedCalls, nonOpVars>>

(* ------------------------------- Await --------------------------------- *)

\* Mutant: do { g_cond_wait } while (!completed): the first wait comes before
\* the first test of the flag.
AwaitLockWaitFirst(t, o) ==
  /\ pc[t] = "idle"
  /\ o \in OpIds
  /\ ops[o].handed
  /\ lock = NoThread
  /\ pc' = [pc EXCEPT ![t] = "await_wait"]
  /\ arg' = [arg EXCEPT ![t] = o]
  /\ entryTerminal' = [entryTerminal EXCEPT ![t] = ops[o].completed]
  /\ UNCHANGED <<ops, js_operations, jobs, lock, delayedCalls, nonOpVars>>

\* Await (both variants): GumV8PlatformLocker locker (platform).
AwaitLock(t, o) ==
  /\ pc[t] = "idle"
  /\ o \in OpIds
  /\ ops[o].handed
  /\ lock = NoThread
  /\ lock' = t
  /\ pc' = [pc EXCEPT ![t] = "await_check"]
  /\ arg' = [arg EXCEPT ![t] = o]
  /\ entryTerminal' = [entryTerminal EXCEPT ![t] = ops[o].completed]
  /\ UNCHANGED <<ops, js_operations, jobs, delayedCalls, nonOpVars>>

\* Mutant: while (completed) g_cond_wait: Await returns at once from an
\* operation that is not completed.
AwaitCheckReturns(t) ==
  /\ pc[t] = "await_check"
  /\ lock = t
  /\ lock' = NoThread
  /\ pc' = [pc EXCEPT ![t] = "await_return"]
  /\ UNCHANGED <<ops, js_operations, jobs, arg, entryTerminal, delayedCalls, nonOpVars>>

\* Await: while (!completed) g_cond_wait (&cond, &platform->lock). With the
\* flag set the locker is released and Await returns; otherwise the thread
\* releases the lock and blocks on cond.
AwaitCheck(t) ==
  /\ pc[t] = "await_check"
  /\ lock = t
  /\ lock' = NoThread
  /\ pc' = [pc EXCEPT ![t] =
              IF ops[arg[t]].completed THEN "await_return" ELSE "await_wait"]
  /\ UNCHANGED <<ops, js_operations, jobs, arg, entryTerminal, delayedCalls, nonOpVars>>

\* g_cond_wait may return without a signal (a spurious wakeup).
AwaitSpuriousWakeup(t) ==
  /\ pc[t] = "await_wait"
  /\ pc' = [pc EXCEPT ![t] = "await_woken"]
  /\ UNCHANGED <<ops, js_operations, jobs, lock, arg, entryTerminal, delayedCalls, nonOpVars>>

\* Mutant: if (!completed) g_cond_wait: no second test after the wait.
AwaitResumeNoRecheck(t) ==
  /\ pc[t] = "await_woken"
  /\ lock = NoThread
  /\ pc' = [pc EXCEPT ![t] = "await_return"]
  /\ UNCHANGED <<ops, js_operations, jobs, lock, arg, entryTerminal, delayedCalls, nonOpVars>>

\* g_cond_wait returns with the lock re-acquired; the loop tests the flag again.
AwaitResume(t) ==
  /\ pc[t] = "await_woken"
  /\ lock = NoThread
  /\ lock' = t
  /\ pc' = [pc EXCEPT ![t] = "await_check"]
  /\ UNCHANGED <<ops, js_operations, jobs, arg, entryTerminal, delayedCalls, nonOpVars>>

\* Await has returned to its caller.
AwaitReturn(t) ==
  /\ pc[t] = "await_return"
  /\ pc' = [pc EXCEPT ![t] = "idle"]
  /\ arg' = [arg EXCEPT ![t] = 0]
  /\ entryTerminal' = [entryTerminal EXCEPT ![t] = FALSE]
  /\ UNCHANGED <<ops, js_operations, jobs, lock, delayedCalls, nonOpVars>>

(* ---------------------------- specification ---------------------------- *)

\* A client starts a call of the public API.
Call(t) ==
  \/ ScheduleOnJSThread(t)
  \/ ClientScheduleOnThreadPool(t)
  \/ \E o \in OpIds : MainContextOperationCancel(t, o)
  \/ \E o \in OpIds : ThreadPoolOperationCancel(t, o)
  \/ \E o \in OpIds : AwaitLock(t, o)

\* A client goes on with the call it is in.
Continue(t) ==
  \/ ScheduleOnJSThreadReturn(t)
  \/ ReleaseMainContextOperationLock(t)
  \/ ReleaseMainContextOperationErase(t)
  \/ MainContextOperationCancelLock(t)
  \/ MainContextOperationCancelMark(t)
  \/ ThreadPoolOperationCancelReturn(t)
  \/ AwaitCheck(t)
  \/ AwaitResume(t)
  \/ AwaitReturn(t)

\* The JS thread: the main loop and the callbacks it runs.
JSStep ==
  \/ \E o \in OpIds : Dispatch(o)
  \/ FuncReturns(JS)
  \/ PerformLock(JS)
  \/ PerformMark(JS)
  \/ PerformMainContextOperationReturn
  \/ ReleaseMainContextOperationLock(JS)
  \/ ReleaseMainContextOperationErase(JS)

\* The pool thread.
WorkerStep ==
  \/ \E o \in OpIds : TakeJob(o)
  \/ FuncReturns(Worker)
  \/ PerformLock(Worker)
  \/ PerformMark(Worker)
  \/ ReleaseThreadPoolOperation

Next ==
  \/ \E t \in Clients : Call(t)
  \/ \E t \in Clients : Continue(t)
  \/ \E t \in Clients : AwaitSpuriousWakeup(t)
  \/ JSStep
  \/ WorkerStep

Spec == Init /\ [][Next]_vars

\* The scheduling the host guarantees: the JS main loop and the pool thread
\* keep running, func returns, a thread inside a call goes on, and a thread
\* that asks for the Platform lock gets it when it is released again and
\* again. Nothing makes a client start a call, and nothing makes g_cond_wait
\* return without a signal.
Fairness ==
  /\ \A t \in Clients : SF_vars(Continue(t))
  /\ SF_vars(JSStep)
  /\ SF_vars(WorkerStep)

FairSpec == Spec /\ Fairness

\* The same program with two of the client threads making calls.
TwoClients == {"c1", "c2"}

NextTwoClients ==
  \/ \E t \in TwoClients : Call(t)
  \/ \E t \in TwoClients : Continue(t)
  \/ \E t \in TwoClients : AwaitSpuriousWakeup(t)
  \/ JSStep
  \/ WorkerStep

FairSpecTwoClients ==
  /\ Init
  /\ [][NextTwoClients]_vars
  /\ \A t \in TwoClients : SF_vars(Continue(t))
  /\ SF_vars(JSStep)
  /\ SF_vars(WorkerStep)

\* A client posts worker-thread tasks (CallOnWorkerThread,
\* CallDelayedOnWorkerThread).
DelayedStep(t) ==
  \/ CallOnWorkerThread(t)
  \/ ScheduleOnThreadPoolDelayed(t)
  \/ ScheduleOnThreadPoolDelayedEnd(t)

NextDelayed ==
  \/ \E t \in Clients : DelayedStep(t)
  \/ JSStep
  \/ WorkerStep

\* The worker-thread task paths alone.
SpecDelayed == Init /\ [][NextDelayed]_vars

(* ------------------- foreground operations in order -------------------- *)

Priorities == {G_PRIORITY_HIGH, G_PRIORITY_DEFAULT, G_PRIORITY_LOW}

\* Foreground operations clients have scheduled with a priority of their own.
ForegroundBegun == Cardinality({o \in OpIds : ops[o].func = "fg"})

\* A client calls ScheduleOnJSThreadDelayed (delay, priority, f) and keeps the
\* handle.
ScheduleOnJSThreadDelayed(t, delay, priority) ==
  /\ pc[t] = "idle"
  /\ ForegroundBegun < MaxForegroundOps
  /\ ScheduleOnJSThreadDelayedLock(t, delay, priority, "fg",
                                   "schedule_insert", <<>>)

\* A client schedules foreground work, or cancels some.
ForegroundCall(t) ==
  \/ \E delay \in Delays : \E priority \in Priorities :
       ScheduleOnJSThreadDelayed(t, delay, priority)
  \/ \E o \in OpIds : MainContextOperationCancel(t, o)

ForegroundContinue(t) ==
  \/ ScheduleOnJSThreadReturn(t)
  \/ ReleaseMainContextOperationLock(t)
  \/ ReleaseMainContextOperationErase(t)
  \/ MainContextOperationCancelLock(t)
  \/ MainContextOperationCancelMark(t)

\* The thread that schedules the foreground work.
Submitter == "c1"

NextForeground ==
  \/ ForegroundCall(Submitter)
  \/ ForegroundContinue(Submitter)
  \/ JSStep

\* Foreground operations of several priorities and delays, scheduled one
\* after the other, and the JS loop.
SpecForeground == Init /\ [][NextForeground]_vars

(* ------------------ foreground and pool work together ------------------ *)

\* A client schedules foreground work, delayed or not, or pool work, or waits
\* for some; nothing is cancelled.
MixedCall(t) ==
  \/ \E delay \in Delays : ScheduleOnJSThreadDelayed(t, delay, G_PRIORITY_DEFAULT)
  \/ ClientScheduleOnThreadPool(t)
  \/ \E o \in OpIds : AwaitLock(t, o)

MixedContinue(t) ==
  \/ ScheduleOnJSThreadReturn(t)
  \/ AwaitCheck(t)
  \/ AwaitResume(t)
  \/ AwaitReturn(t)

NextMixed ==
  \/ \E t \in TwoClients : MixedCall(t)
  \/ \E t \in TwoClients : MixedContinue(t)
  \/ JSStep
  \/ WorkerStep

\* Foreground and pool operations that nobody cancels, under the scheduling
\* the host guarantees: the timers fire, the loop and the pool run.
FairSpecMixed ==
  /\ Init
  /\ [][NextMixed]_vars
  /\ \A t \in TwoClients : SF_vars(MixedContinue(t))
  /\ SF_vars(JSStep)
  /\ SF_vars(WorkerStep)

(* ------------------------ Await on the JS thread ----------------------- *)

\* Code running on the JS thread between two dispatches of the loop calls
\* Await on a foreground operation that is not completed.
SelfAwait(o) ==
  /\ o \in OpIds
  /\ ops[o].kind = "main"
  /\ ~ops[o].completed
  /\ AwaitLock(JS, o)

\* Code running on the JS thread schedules foreground work and waits for
\* foreground work; while it is inside a call the loop does not iterate.
SelfAwaitStep ==
  \/ ScheduleOnJSThread(JS)
  \/ ScheduleOnJSThreadReturn(JS)
  \/ \E o \in OpIds : SelfAwait(o)
  \/ AwaitCheck(JS)
  \/ AwaitSpuriousWakeup(JS)
  \/ AwaitResume(JS)
  \/ AwaitReturn(JS)

NextSelfAwait ==
  \/ SelfAwaitStep
  \/ \E t \in TwoClients : Call(t)
  \/ \E t \in TwoClients : Continue(t)
  \/ JSStep
  \/ WorkerStep

\* The JS thread as a caller of the API, next to two client threads.
SpecSelfAwait == Init /\ [][NextSelfAwait]_vars

(* ----------------------- foreground task runners ---------------------- *)

\* Mutant: the test of the looked-up pointer always finds it empty.
RunnerMissingAlways(r) == TRUE

\* GetForegroundTaskRunner: if (!runner).
RunnerMissing(r) == r = 0

\* GetForegroundTaskRunner: auto runner = foreground_runners[isolate];
\* operator[] inserts an empty entry for a key the map does not hold.
GetForegroundTaskRunnerLookup(t, i) ==
  /\ pc[t] = "idle"
  /\ foreground_runners' = [foreground_runners EXCEPT ![i].present = TRUE]
  /\ runner' = [runner EXCEPT ![t] = foreground_runners[i].ptr]
  /\ isolateArg' = [isolateArg EXCEPT ![t] = i]
  /\ pc' = [pc EXCEPT ![t] = "runner_test"]
  /\ UNCHANGED <<runnersCreated, returned>>
  /\ UNCHANGED <<opVars, engineVars, clockVars, memVars>>

\* GetForegroundTaskRunner: with an empty pointer a GumV8ForegroundTaskRunner
\* is constructed and stored in foreground_runners[isolate].
GetForegroundTaskRunnerCreate(t) ==
  /\ pc[t] = "runner_test"
  /\ IF RunnerMissing(runner[t])
       THEN /\ runnersCreated' = runnersCreated + 1
            /\ runner' = [runner EXCEPT ![t] = runnersCreated + 1]
            /\ foreground_runners' =
                 [foreground_runners EXCEPT ![isolateArg[t]] =
                    [present |-> TRUE, ptr |-> runnersCreated + 1]]
       ELSE UNCHANGED <<runnersCreated, runner, foreground_runners>>
  /\ pc' = [pc EXCEPT ![t] = "runner_return"]
  /\ UNCHANGED <<isolateArg, returned>>
  /\ UNCHANGED <<opVars, engineVars, clockVars, memVars>>

\* GetForegroundTaskRunner: return runner.
GetForegroundTaskRunnerReturn(t) ==
  /\ pc[t] = "runner_return"
  /\ returned' = [returned EXCEPT ![isolateArg[t]] = @ \cup {runner[t]}]
  /\ runner' = [runner EXCEPT ![t] = 0]
  /\ isolateArg' = [isolateArg EXCEPT ![t] = "none"]
  /\ pc' = [pc EXCEPT ![t] = "idle"]
  /\ UNCHANGED <<foreground_runners, runnersCreated>>
  /\ UNCHANGED <<opVars, engineVars, clockVars, memVars>>

\* A call of GetForegroundTaskRunner that starts when no other is in progress.
GetForegroundTaskRunnerInSequence(t, i) ==
  /\ \A u \in Clients : pc[u] = "idle"
  /\ GetForegroundTaskRunnerLookup(t, i)

NextRunnersSequential ==
  \/ \E t \in Clients : \E i \in Isolates : GetForegroundTaskRunnerInSequence(t, i)
  \/ \E t \in Clients : GetForegroundTaskRunnerCreate(t)
  \/ \E t \in Clients : GetForegroundTaskRunnerReturn(t)

\* Calls of GetForegroundTaskRunner, one after the other, from any thread.
SpecRunnersSequential == Init /\ [][NextRunnersSequential]_vars

NextRunnersConcurrent ==
  \/ \E t \in TwoClients : \E i \in Isolates : GetForegroundTaskRunnerLookup(t, i)
  \/ \E t \in TwoClients : GetForegroundTaskRunnerCreate(t)
  \/ \E t \in TwoClients : GetForegroundTaskRunnerReturn(t)

\* Calls of GetForegroundTaskRunner from two threads, overlapping or not.
SpecRunnersConcurrent == Init /\ [][NextRunnersConcurrent]_vars

(* --------------------- tasks posted through a runner ------------------- *)

\* The funcs PostTask, PostDelayedTask and PostIdleTask schedule: Run (Task *)
\* and Run (IdleTask *).
RunnerFuncs == {"task_run", "idle_run"}

\* Tasks posted through runners so far.
Posted == Cardinality({o \in OpIds : ops[o].func \in RunnerFuncs})

\* Some runner has been handed out.
RunnerHandedOut == \E i \in Isolates : returned[i] # {}

\* PostTask: platform->ScheduleOnJSThread (lambda).
PostTask(t) ==
  /\ pc[t] = "idle"
  /\ RunnerHandedOut
  /\ Posted < MaxPosted
  /\ ScheduleOnJSThreadDelayedLock(t, 0, G_PRIORITY_DEFAULT, "task_run",
                                   "post_insert", <<>>)

\* PostDelayedTask: platform->ScheduleOnJSThreadDelayed (delay, lambda).
PostDelayedTask(t) ==
  /\ pc[t] = "idle"
  /\ RunnerHandedOut
  /\ Posted < MaxPosted
  /\ \E delay \in Delays :
       ScheduleOnJSThreadDelayedLock(t, delay, G_PRIORITY_DEFAULT, "task_run",
                                     "post_insert", <<>>)

\* PostIdleTask: platform->ScheduleOnJSThread (G_PRIORITY_LOW, lambda).
PostIdleTask(t) ==
  /\ pc[t] = "idle"
  /\ RunnerHandedOut
  /\ Posted < MaxPosted
  /\ ScheduleOnJSThreadDelayedLock(t, 0, G_PRIORITY_LOW, "idle_run",
                                   "post_insert", <<>>)

\* The rest of ScheduleOnJSThreadDelayed; the Post method drops the handle and
\* returns.
PostReturn(t) ==
  /\ pc[t] = "post_insert"
  /\ ScheduleOnJSThreadDelayedAttach(t, FALSE)
  /\ idleTasks' = IF ops[arg[t]].func = "idle_run"
                    THEN Append(idleTasks,
                           [op |-> arg[t], posted |-> clock, ran |-> FALSE,
                            at |-> 0, deadline |-> 0])
                    ELSE idleTasks
  /\ UNCHANGED <<delayedCalls, runnerVars, engineVars, clock, memVars>>

\* A thread posts through a runner.
PostStep(t) ==
  \/ PostTask(t)
  \/ PostDelayedTask(t)
  \/ PostIdleTask(t)
  \/ PostReturn(t)

\* The amounts by which the clock is seen to move while the program runs.
ClockSteps == {400, 700}

\* Time passes.
Tick ==
  /\ clock < MaxClock
  /\ \E d \in ClockSteps : clock' = clock + d
  /\ UNCHANGED <<opVars, pc, runnerVars, engineVars, idleTasks, memVars>>

\* The thread that uses the runners.
Embedder == "c2"

\* The isolate the constructor creates: the one the engine asks a runner for.
PlatformIsolate == "i1"

NextIdle ==
  \/ GetForegroundTaskRunnerLookup(Embedder, PlatformIsolate)
  \/ GetForegroundTaskRunnerCreate(Embedder)
  \/ GetForegroundTaskRunnerReturn(Embedder)
  \/ PostStep(Embedder)
  \/ Tick
  \/ JSStep

\* Tasks posted through runners and run by the JS loop as time passes.
SpecIdle == Init /\ [][NextIdle]_vars

(* --------------------------- memory backend ---------------------------- *)

\* Where a thread inside Allocate, Free or Release can be.
MemoryPcs ==
  {"alloc_cloak", "alloc_return", "alloc_null", "free_uncloak", "free_return",
   "free_false"}

\* gum_memory_allocate (size, prot, address): NULL (0), or the base of a range
\* of that size none of whose pages is handed out.
GumMemoryAllocate(size) ==
  {0} \cup {r.base : r \in {q \in Ranges : /\ q.size = size
                                            /\ RangePages(q) \cap mapped = {}}}

\* gum_memory_release (address, size): true when the pages of the range are
\* handed out.
GumMemoryRelease(r) == RangePages(r) \subseteq mapped

\* gum_cloak_add_range (&r).
GumCloakAddRange(c, r) == c \cup RangePages(r)

\* gum_cloak_remove_range (&r).
GumCloakRemoveRange(c, r) == c \ RangePages(r)

\* Allocate: gpointer base = gum_memory_allocate (size, ..., address).
Allocate(t, size) ==
  /\ pc[t] = "idle"
  /\ \E base \in GumMemoryAllocate(size) :
       /\ mem' = [mem EXCEPT ![t] = [base |-> base, size |-> size]]
       /\ IF base # 0
            THEN /\ mapped' = mapped \cup RangePages([base |-> base, size |-> size])
                 /\ pc' = [pc EXCEPT ![t] = "alloc_cloak"]
            ELSE /\ mapped' = mapped
                 /\ pc' = [pc EXCEPT ![t] = "alloc_null"]
  /\ UNCHANGED <<opVars, runnerVars, engineVars, clockVars, cloak, held>>

\* Allocate: if (base != NULL) Cloak (base, size).
AllocateCloak(t) ==
  /\ pc[t] = "alloc_cloak"
  /\ cloak' = GumCloakAddRange(cloak, mem[t])
  /\ pc' = [pc EXCEPT ![t] = "alloc_return"]
  /\ UNCHANGED <<opVars, runnerVars, engineVars, clockVars, mapped, held, mem>>

\* Allocate: return base. The caller holds the range from here on.
AllocateReturn(t) ==
  /\ pc[t] \in {"alloc_return", "alloc_null"}
  /\ held' = IF pc[t] = "alloc_return"
               THEN [p \in Pages |->
                       IF p \in RangePages(mem[t]) THEN held[p] + 1 ELSE held[p]]
               ELSE held
  /\ mem' = [mem EXCEPT ![t] = NoRange]
  /\ pc' = [pc EXCEPT ![t] = "idle"]
  /\ UNCHANGED <<opVars, runnerVars, engineVars, clockVars, mapped, cloak>>

\* The ranges a caller passes to Free or Release: a range it holds and no
\* other thread is releasing, or a range that is no memory of the backend.
Releasable(r) ==
  \/ /\ \A p \in RangePages(r) : held[p] >= 1
     /\ \A u \in Threads :
          pc[u] \in {"free_uncloak", "free_return"}
            => RangePages(mem[u]) \cap RangePages(r) = {}
  \/ RangePages(r) \cap mapped = {}

\* Free: bool success = !!gum_memory_release (address, size).
Free(t, r) ==
  /\ pc[t] = "idle"
  /\ Releasable(r)
  /\ mem' = [mem EXCEPT ![t] = r]
  /\ IF GumMemoryRelease(r)
       THEN /\ mapped' = mapped \ RangePages(r)
            /\ pc' = [pc EXCEPT ![t] = "free_uncloak"]
       ELSE /\ mapped' = mapped
            /\ pc' = [pc EXCEPT ![t] = "free_false"]
  /\ UNCHANGED <<opVars, runnerVars, engineVars, clockVars, cloak, held>>

\* Release: return Free (address, size).
Release(t, r) == Free(t, r)

\* Free: if (success) Uncloak (address, size).
FreeUncloak(t) ==
  /\ pc[t] = "free_uncloak"
  /\ cloak' = GumCloakRemoveRange(cloak, mem[t])
  /\ pc' = [pc EXCEPT ![t] = "free_return"]
  /\ UNCHANGED <<opVars, runnerVars, engineVars, clockVars, mapped, held, mem>>

\* Free: return success. After true the caller holds the range no longer.
FreeReturn(t) ==
  /\ pc[t] \in {"free_return", "free_false"}
  /\ held' = IF pc[t] = "free_return"
               THEN [p \in Pages |->
                       IF p \in RangePages(mem[t]) THEN held[p] - 1 ELSE held[p]]
               ELSE held
  /\ mem' = [mem EXCEPT ![t] = NoRange]
  /\ pc' = [pc EXCEPT ![t] = "idle"]
  /\ UNCHANGED <<opVars, runnerVars, engineVars, clockVars, mapped, cloak>>

\* A thread of the engine uses the memory backend.
MemoryStep(t) ==
  \/ \E size \in Sizes : Allocate(t, size)
  \/ AllocateCloak(t)
  \/ AllocateReturn(t)
  \/ \E r \in Ranges : Free(t, r)
  \/ \E r \in Ranges : Release(t, r)
  \/ FreeUncloak(t)
  \/ FreeReturn(t)

NextMemory == \E t \in TwoClients : MemoryStep(t)

\* Two threads of the engine allocate and release memory.
SpecMemory == Init /\ [][NextMemory]_vars

(* ------------------------------ teardown ------------------------------- *)

\* An entry of the teardown record: thread by called ev on what.
Ev(e, w, t) == [ev |-> e, what |-> w, by |-> t]

\* The entries of the teardown record for call e.
Events(e) == {k \in DOMAIN teardown : teardown[k].ev = e}

IsolateDisposed == Events("isolate->Dispose") # {}

V8Disposed == Events("V8::Dispose") # {}

\* GetObjCBundle, GetJavaBundle: the bundle is created on first use. Scripts
\* ask for bundles while the engine is up.
GetBundle(t, b) ==
  /\ pc[t] = "idle"
  /\ b \in {"objc_bundle", "java_bundle"}
  /\ teardown = <<>>
  /\ bundles[b] = "null"
  /\ bundles' = [bundles EXCEPT ![b] = "live"]
  /\ UNCHANGED <<opVars, pc, runnerVars, teardown, clockVars, memVars>>

\* g_clear_pointer (&bundle, gum_v8_bundle_free): a bundle that is not NULL is
\* freed; the pointer is NULL afterwards.
ClearBundle(b, t) ==
  IF bundles[b] = "live" THEN <<Ev("gum_v8_bundle_free", b, t)>> ELSE <<>>

\* Where a thread is after a call on an engine object: a call on an object
\* that has been disposed of already is undefined, the process may die in it
\* or go on.
AfterEngineCall(disposed, next) ==
  IF disposed THEN {"crashed", next} ELSE {next}

\* Dispose () invoked directly, when no other invocation is in progress.
DisposeCall(t) ==
  /\ pc[t] = "idle"
  /\ \A u \in Threads : pc[u] \notin DisposePcs
  /\ Cardinality(Events("Dispose")) < MaxDisposeCalls
  /\ teardown' = Append(teardown, Ev("Dispose", "platform", t))
  /\ pc' = [pc EXCEPT ![t] = "dispose_bundles"]
  /\ UNCHANGED <<opVars, runnerVars, bundles, clockVars, memVars>>

\* Dispose, first block: under the isolate's Locker the four bundles are
\* cleared. Entered from a direct call or as the func of the operation the
\* destructor scheduled.
DisposeBundles(t) ==
  /\ \/ pc[t] = "dispose_bundles"
     \/ pc[t] = "perform_func" /\ ops[arg[t]].func = "dispose"
  /\ teardown' = teardown \o ClearBundle("objc_bundle", t)
                          \o ClearBundle("java_bundle", t)
                          \o ClearBundle("debug_bundle", t)
                          \o ClearBundle("runtime_bundle", t)
  /\ bundles' = [b \in Bundles |-> "null"]
  /\ \E next \in AfterEngineCall(IsolateDisposed, "dispose_isolate") :
       pc' = [pc EXCEPT ![t] = next]
  /\ UNCHANGED <<opVars, runnerVars, clockVars, memVars>>

\* Dispose: isolate->Dispose ().
DisposeIsolate(t) ==
  /\ pc[t] = "dispose_isolate"
  /\ teardown' = Append(teardown, Ev("isolate->Dispose", "isolate", t))
  /\ \E next \in AfterEngineCall(IsolateDisposed, "dispose_lock") :
       pc' = [pc EXCEPT ![t] = next]
  /\ UNCHANGED <<opVars, runnerVars, bundles, clockVars, memVars>>

\* Dispose, second block: GumV8PlatformLocker locker (this).
DisposeLock(t) ==
  /\ pc[t] = "dispose_lock"
  /\ lock = NoThread
  /\ lock' = t
  /\ pc' = [pc EXCEPT ![t] = "dispose_runners"]
  /\ UNCHANGED <<ops, js_operations, jobs, arg, entryTerminal, delayedCalls,
                 nonOpVars>>

\* The registry after the locked block of Dispose, whose body is the comment
\* "FIXME: dispose runners".
DisposeRunnersBody == foreground_runners

\* Mutant: the locked block of Dispose is not closed before V8::Dispose.
DisposeRunnersKeepsLock(t) ==
  /\ pc[t] = "dispose_runners"
  /\ lock = t
  /\ foreground_runners' = DisposeRunnersBody
  /\ teardown' = Append(teardown, Ev("locked block", "runners", t))
  /\ pc' = [pc EXCEPT ![t] = "dispose_v8"]
  /\ UNCHANGED <<ops, js_operations, jobs, lock, arg, entryTerminal,
                 delayedCalls, runnersCreated, isolateArg, runner, returned,
                 bundles, clockVars, memVars>>

\* Dispose, second block: the body, then the locker is released.
DisposeRunners(t) ==
  /\ pc[t] = "dispose_runners"
  /\ lock = t
  /\ foreground_runners' = DisposeRunnersBody
  /\ lock' = NoThread
  /\ teardown' = Append(teardown, Ev("locked block", "runners", t))
  /\ pc' = [pc EXCEPT ![t] = "dispose_v8"]
  /\ UNCHANGED <<ops, js_operations, jobs, arg, entryTerminal, delayedCalls,
                 runnersCreated, isolateArg, runner, returned, bundles,
                 clockVars, memVars>>

\* Dispose: V8::Dispose ().
DisposeV8(t) ==
  /\ pc[t] = "dispose_v8"
  /\ teardown' = Append(teardown, Ev("V8::Dispose", "V8", t))
  /\ \E next \in AfterEngineCall(V8Disposed, "dispose_shutdown") :
       pc' = [pc EXCEPT ![t] = next]
  /\ UNCHANGED <<opVars, runnerVars, bundles, clockVars, memVars>>

\* Dispose: V8::ShutdownPlatform (); Dispose returns, to its caller or to
\* Perform.
DisposeShutdown(t) ==
  /\ pc[t] = "dispose_shutdown"
  /\ teardown' = Append(teardown, Ev("V8::ShutdownPlatform", "V8", t))
  /\ pc' = [pc EXCEPT ![t] = IF arg[t] = 0 THEN "idle" ELSE "perform_lock"]
  /\ UNCHANGED <<opVars, runnerVars, bundles, clockVars, memVars>>

\* A thread goes on with the Dispose it is in.
DisposeStep(t) ==
  \/ DisposeBundles(t)
  \/ DisposeIsolate(t)
  \/ DisposeLock(t)
  \/ DisposeRunners(t)
  \/ DisposeV8(t)
  \/ DisposeShutdown(t)

NextDisposeTwice ==
  \/ \E t \in Clients : \E b \in Bundles : GetBundle(t, b)
  \/ \E t \in Clients : DisposeCall(t)
  \/ \E t \in Clients : DisposeStep(t)
  \/ \E t \in Clients : \E i \in Isolates : GetForegroundTaskRunnerInSequence(t, i)
  \/ \E t \in Clients : GetForegroundTaskRunnerCreate(t)
  \/ \E t \in Clients : GetForegroundTaskRunnerReturn(t)

\* Dispose invoked directly, one invocation after the other, on a Platform
\* whose bundles and runners have been asked for.
SpecDisposeTwice == Init /\ [][NextDisposeTwice]_vars

(* ----------------------------- destructor ------------------------------ *)

\* The thread that deletes the Platform.
Destroyer == "c1"

\* The operations whose func calls Dispose.
DisposeOps == {o \in OpIds : ops[o].func = "dispose"}

\* ~GumV8Platform: auto dispose = ScheduleOnJSThread (G_PRIORITY_HIGH,
\* [=]() { Dispose (); }), up to the locker of ScheduleOnJSThreadDelayed.
DestructorSchedule(t) ==
  /\ pc[t] = "idle"
  /\ DisposeOps = {}
  /\ ScheduleOnJSThreadDelayedLock(t, 0, G_PRIORITY_HIGH, "dispose",
                                   "schedule_insert", <<>>)

\* ~GumV8Platform: dispose->Await ().
DestructorAwait(t) ==
  \E o \in DisposeOps : AwaitLock(t, o)

\* Mutant: the destructor goes on without the Await.
DestructorResumesUnawaited(t) == pc[t] = "idle" /\ DisposeOps # {}

\* The destructor goes on past dispose->Await () when Await has returned.
DestructorResumes(t) ==
  pc[t] = "await_return" /\ arg[t] \in DisposeOps

\* ~GumV8Platform: g_object_unref (scheduler), first statement after the Await.
DestructorUnrefScheduler(t) ==
  /\ DestructorResumes(t)
  /\ teardown' = Append(teardown, Ev("g_object_unref", "scheduler", t))
  /\ pc' = [pc EXCEPT ![t] = "dtor_delete"]
  /\ arg' = [arg EXCEPT ![t] = 0]
  /\ entryTerminal' = [entryTerminal EXCEPT ![t] = FALSE]
  /\ UNCHANGED <<ops, js_operations, jobs, lock, delayedCalls, runnerVars,
                 bundles, clockVars, memVars>>

\* ~GumV8Platform: delete tracing_controller, threading_backend,
\* memory_backend, array_buffer_allocator.
DestructorDeleteBackends(t) ==
  /\ pc[t] = "dtor_delete"
  /\ teardown' = Append(teardown, Ev("delete", "backends", t))
  /\ pc' = [pc EXCEPT ![t] = "dtor_clear"]
  /\ UNCHANGED <<opVars, runnerVars, bundles, clockVars, memVars>>

\* ~GumV8Platform: g_mutex_clear (&lock).
DestructorClearLock(t) ==
  /\ pc[t] = "dtor_clear"
  /\ teardown' = Append(teardown, Ev("g_mutex_clear", "lock", t))
  /\ pc' = [pc EXCEPT ![t] = "dtor_done"]
  /\ UNCHANGED <<opVars, runnerVars, bundles, clockVars, memVars>>

\* The destructor, statement by statement.
DestructorStep(t) ==
  \/ DestructorSchedule(t)
  \/ ScheduleOnJSThreadReturn(t)
  \/ DestructorAwait(t)
  \/ AwaitCheck(t)
  \/ AwaitResume(t)
  \/ DestructorUnrefScheduler(t)
  \/ DestructorDeleteBackends(t)
  \/ DestructorClearLock(t)

NextTeardown ==
  \/ \E b \in Bundles : GetBundle(Embedder, b)
  \/ GetForegroundTaskRunnerLookup(Embedder, PlatformIsolate)
  \/ GetForegroundTaskRunnerCreate(Embedder)
  \/ GetForegroundTaskRunnerReturn(Embedder)
  \/ PostStep(Embedder)
  \/ DestructorStep(Destroyer)
  \/ JSStep
  \/ DisposeStep(JS)

\* A Platform in use, with runners and posted tasks, is deleted.
SpecTeardown == Init /\ [][NextTeardown]_vars

(* ----------------------- a Platform in use, deleted ------------------- *)

\* The threads that use the Platform until it is deleted.
Users == {"c2", "c3"}

\* A user starts a call of the public API; none starts once the destructor
\* has been entered.
LiveCall(t) == DisposeOps = {} /\ Call(t)

NextLifetime ==
  \/ \E t \in Users : LiveCall(t)
  \/ \E t \in Users : Continue(t)
  \/ DestructorStep(Destroyer)
  \/ JSStep
  \/ WorkerStep
  \/ DisposeStep(JS)

\* Foreground and pool operations of two threads, and the destructor called
\* by a third.
SpecLifetime == Init /\ [][NextLifetime]_vars

(* ------------------------------- claims -------------------------------- *)

\* C1: for every operation, under every interleaving of Perform, Cancel and
\* Await, func is invoked at most once and never by two threads at once.
C1_WorkAtMostOnce ==
  \A o \in OpIds : ops[o].runs <= 1 /\ Active(o) <= 1

\* A main-context operation that ran once while Cancel raced with it, its
\* source gone and the loop idle again.
C1_Witness ==
  \E o \in OpIds :
    /\ ops[o].runs = 1
    /\ ops[o].state = "Cancelled"
    /\ ops[o].source = "destroyed"
    /\ pc[JS] = "idle"

\* C2: whenever an Await call returns, the operation's completed flag is set.
C2_AwaitReturnsCompleted ==
  \A t \in Clients : pc[t] = "await_return" => ops[arg[t]].completed

\* An Await that found the flag clear, waited, and has returned.
C2_Witness ==
  \E t \in Clients :
    /\ pc[t] = "await_return"
    /\ ~entryTerminal[t]
    /\ ops[arg[t]].completed

\* C3: a main-context operation on which Cancel destroyed the source before
\* the loop began Perform never has its func invoked.
C3_CancelledBeforePerformNeverRuns ==
  \A o \in OpIds : ops[o].cancelledPending => ops[o].runs = 0 /\ Active(o) = 0

\* Cancel came first, has returned, and the JS loop is idle with nothing to run.
C3_Witness ==
  \E o \in OpIds :
    /\ ops[o].cancelledPending
    /\ ops[o].state = "Cancelled"
    /\ o \notin js_operations
    /\ \A t \in Threads : pc[t] = "idle"

\* Thread t is inside Await on operation o.
InAwait(t, o) ==
  /\ pc[t] \in {"await_check", "await_wait", "await_woken"}
  /\ arg[t] = o

\* C4: once Cancel has destroyed the source of a pending main-context
\* operation, every thread inside Await on it eventually returns from Await.
C4_CancelReleasesEveryWaiter ==
  \A t \in Clients : \A o \in 1..MaxOps :
    (o \in OpIds /\ ops[o].kind = "main" /\ ops[o].cancelledPending
       /\ InAwait(t, o))
      ~> (pc[t] = "await_return")

\* C5: once Perform has set the flag of an operation, every thread inside
\* Await on it eventually returns from Await, however many there are.
C5_PerformReleasesEveryWaiter ==
  \A t \in Clients : \A o \in 1..MaxOps :
    (o \in OpIds /\ ops[o].state = "Completed" /\ InAwait(t, o))
      ~> (pc[t] = "await_return")

\* C6: Cancel on a pool operation changes no operation and no job; the func of
\* a pool operation runs, and runs once; an Await on a pool operation returns
\* only after Perform has run func and set the flag.
C6_PoolCancelHasNoEffect ==
  /\ [][\A t \in Clients :
          (pc[t] = "cancel_pool" \/ pc'[t] = "cancel_pool")
             /\ pc'[t] # pc[t]
            => (ops' = ops /\ jobs' = jobs)]_vars
  /\ [](\A o \in OpIds : ops[o].kind = "pool" => ops[o].runs <= 1)
  /\ [](\A t \in Clients :
          (pc[t] = "await_return" /\ ops[arg[t]].kind = "pool")
            => (ops[arg[t]].state = "Completed" /\ ops[arg[t]].runs = 1))
  /\ \A o \in 1..MaxOps :
       [](o \in OpIds /\ ops[o].kind = "pool" /\ ops[o].submitted
            => <>(o \in OpIds /\ ops[o].runs = 1
                    /\ ops[o].state = "Completed"))

\* A thread is inside Cancel on a pool operation that has run once and
\* completed all the same, and an Await on it has returned.
C6_Witness ==
  \E t \in Clients :
    /\ pc[t] = "cancel_pool"
    /\ ops[arg[t]].runs = 1
    /\ ops[arg[t]].state = "Completed"
    /\ \E u \in Clients : pc[u] = "await_return" /\ arg[u] = arg[t]

\* C7: an Await that found the flag already set when it took the lock never
\* waits on cond.
C7_TerminalAwaitNeverWaits ==
  \A t \in Clients :
    entryTerminal[t] => pc[t] \in {"await_check", "await_return"}

\* An Await on an already terminal operation has returned.
C7_Witness ==
  \E t \in Clients : pc[t] = "await_return" /\ entryTerminal[t]

\* C8: once an operation's state is terminal it never changes again: no later
\* Perform or Cancel makes a second terminal transition.
C8_TerminalStateNeverChanges ==
  [][\A o \in OpIds :
       ops[o].state # "Pending" => ops'[o].state = ops[o].state]_vars

\* C9: the handle ScheduleOnThreadPoolDelayed returns is valid and is the pool
\* operation that runs func, not the main-context hop; it is completed only
\* once func has run on the pool.
C9_DelayedHandleIsThePoolOperation ==
  \A k \in DOMAIN delayedCalls :
    LET c == delayedCalls[k] IN
      /\ c.handle \in OpIds
      /\ c.handle # c.hop
      /\ ops[c.handle].kind = "pool"
      /\ \A o \in OpIds : ops[o].parent = c.hop => c.handle = o
      /\ ops[c.handle].completed => ops[c.handle].runs = 1

\* C10: in a sequence of GetForegroundTaskRunner calls, every call for the
\* same isolate returns the same runner, different isolates get different
\* runners, and the registry holds that one runner for each isolate asked for.
C10_RunnerMemoized ==
  /\ \A i \in Isolates :
       /\ Cardinality(returned[i]) <= 1
       /\ 0 \notin returned[i]
       /\ returned[i] # {} =>
            /\ foreground_runners[i].present
            /\ returned[i] = {foreground_runners[i].ptr}
       /\ (foreground_runners[i].present /\ \A t \in Clients : pc[t] = "idle")
            => foreground_runners[i].ptr # 0
  /\ \A i, j \in Isolates :
       i # j => returned[i] \cap returned[j] = {}
  /\ \A i, j \in Isolates :
       (i # j /\ foreground_runners[i].ptr # 0)
         => foreground_runners[i].ptr # foreground_runners[j].ptr

\* A second call for an isolate is about to return the runner the first call
\* returned, and another isolate has got its own runner.
C10_Witness ==
  \E t \in Clients : \E j \in Isolates :
    /\ pc[t] = "runner_return"
    /\ returned[isolateArg[t]] = {runner[t]}
    /\ j # isolateArg[t]
    /\ returned[j] # {}

\* C11: Dispose is idempotent: over any number of invocations one after the
\* other, each bundle is freed at most once, the isolate is disposed of at most
\* once, V8 is disposed of and its platform shut down at most once, and no
\* invocation dies.
C11_DisposeIdempotent ==
  /\ \A b \in Bundles :
       Cardinality({k \in Events("gum_v8_bundle_free") : teardown[k].what = b}) <= 1
  /\ Cardinality(Events("isolate->Dispose")) <= 1
  /\ Cardinality(Events("V8::Dispose")) <= 1
  /\ Cardinality(Events("V8::ShutdownPlatform")) <= 1
  /\ \A t \in Threads : pc[t] # "crashed"

\* C12: the locked block of Dispose, which comes after the isolate has been
\* disposed of, leaves no runner in the registry and no operation posted
\* through a runner outstanding and pending.
C12_DisposeDrainsRunners ==
  [][(/\ Len(teardown') = Len(teardown) + 1
      /\ teardown'[Len(teardown')].ev = "locked block")
       => /\ IsolateDisposed
          /\ \A i \in Isolates : foreground_runners'[i].ptr = 0
          /\ \A o \in OpIds :
               (ops'[o].func \in RunnerFuncs /\ o \in js_operations')
                 => ops'[o].state # "Pending"]_vars

\* C13: the cloak holds exactly the pages of the ranges successful Allocate
\* calls returned and no successful Free or Release has given back, each once:
\* a range is in the cloak when Allocate returns it, calls that fail leave the
\* cloak as it was, and when every range has been given back the cloak is
\* empty.
C13_CloakMatchesAllocations ==
  /\ []((\A t \in Threads : pc[t] \notin MemoryPcs) =>
          /\ cloak = {p \in Pages : held[p] >= 1}
          /\ \A p \in Pages : held[p] <= 1)
  /\ [](\A t \in Threads :
          pc[t] = "alloc_return" => RangePages(mem[t]) \subseteq cloak)
  /\ [][\A t \in Threads :
          (pc[t] # pc'[t] /\ (\/ pc'[t] \in {"alloc_null", "free_false"}
                              \/ pc[t] \in {"alloc_null", "free_false"}))
            => cloak' = cloak]_vars

\* C14: of two foreground operations of the same priority and zero delay, the
\* first scheduled having been returned before the second was asked for, the
\* work of the second never starts while the first, not cancelled, has yet to
\* run.
C14_SamePriorityInSubmissionOrder ==
  [][\A a, b \in OpIds :
       (/\ a < b
        /\ ops[a].kind = "main" /\ ops[b].kind = "main"
        /\ ops[a].priority = ops[b].priority
        /\ ops[a].delay = 0 /\ ops[b].delay = 0
        /\ ops'[b].runs > ops[b].runs
        /\ ~ops[a].cancelledPending)
         => ops[a].runs >= 1 /\ ops[a].source \notin {"attached", "queued"}]_vars

\* Two operations of one priority and no delay, both waiting in the loop's
\* iteration at some point, have run in the order of their submission, the
\* second one running now.
C14_Witness ==
  /\ Len(ops) = 2
  /\ ops[1].priority = ops[2].priority
  /\ ops[1].delay = 0
  /\ ops[2].delay = 0
  /\ ops[1].state = "Completed"
  /\ ops[1].runs = 1
  /\ pc[JS] = "perform_func"
  /\ arg[JS] = 2

\* C15: under fair scheduling every foreground operation, delayed or not, and
\* every pool operation that nobody cancels is eventually completed by
\* Perform after its work has run once, and every client thread inside Await
\* on it eventually returns from Await.
C15_ScheduledWorkCompletes ==
  /\ \A o \in 1..(MaxForegroundOps + MaxOps) :
       (o \in OpIds /\ (ops[o].source = "attached" \/ ops[o].submitted))
         ~> (o \in OpIds /\ ops[o].state = "Completed" /\ ops[o].runs = 1)
  /\ \A t \in Clients : \A o \in 1..(MaxForegroundOps + MaxOps) :
       InAwait(t, o) ~> (pc[t] = "await_return")

\* The JS thread is inside Await on foreground operation o, which was not
\* completed when it called.
SelfAwaiting(o) ==
  /\ pc[JS] \in {"await_check", "await_wait", "await_woken", "await_return"}
  /\ arg[JS] = o
  /\ ops[o].kind = "main"
  /\ ~entryTerminal[JS]

\* C16 as stated: when the JS thread calls Await on a foreground operation
\* that is still pending, that Await never returns and the work of the
\* operation never runs.
C16_SelfAwaitNeverReturns ==
  \A o \in OpIds :
    SelfAwaiting(o) => pc[JS] # "await_return" /\ ops[o].runs = 0

\* C16 amended: when the JS thread calls Await on a foreground operation that
\* is still pending, the work of the operation never runs, and the Await
\* returns only when another thread has cancelled the operation.
C16_SelfAwaitReturnsOnlyOnCancel ==
  \A o \in OpIds :
    SelfAwaiting(o) =>
      /\ ops[o].runs = 0
      /\ pc[JS] = "await_return" => ops[o].state = "Cancelled"

\* The JS thread is blocked in Await on an operation whose source is attached
\* to its own loop, nobody else is inside a call, and no step of the loop is
\* possible.
C16_Witness ==
  /\ pc[JS] = "await_wait"
  /\ SelfAwaiting(arg[JS])
  /\ ops[arg[JS]].source = "attached"
  /\ \A t \in Clients : pc[t] = "idle"
  /\ lock = NoThread
  /\ ~ENABLED JSStep

\* C17: an idle task is scheduled at low priority, and the deadline its Run
\* gets is the Platform's monotonic time when it is run on the JS thread, in
\* whole milliseconds, plus a sixtieth of a second: never before the time it
\* is run at, whenever it was posted.
C17_IdleDeadlineFromDispatchTime ==
  \A k \in DOMAIN idleTasks :
    LET r == idleTasks[k] IN
      /\ ops[r.op].priority = G_PRIORITY_LOW
      /\ ops[r.op].delay = 0
      /\ r.ran =>
           /\ ops[r.op].runs = 1
           /\ r.at >= r.posted
           /\ r.deadline >= 3 * r.at
           /\ r.deadline - 3 * r.at <= 50000
           /\ r.deadline - 3 * r.at > 50000 - 3000

\* An idle task posted at one time has run at a later one, off the whole
\* millisecond, with a deadline later than its posting time would give.
C17_Witness ==
  \E k \in DOMAIN idleTasks :
    LET r == idleTasks[k] IN
      /\ r.ran
      /\ r.at > r.posted
      /\ r.at % 1000 # 0
      /\ r.deadline > ((r.posted \div 1000) * 3000) + 50000

\* C18: a thread holds the Platform lock from the moment it reads the runner
\* registry until it has stored the runner it created, and so all the callers
\* of GetForegroundTaskRunner for one isolate get the same runner, also when
\* their calls overlap.
C18_RegistryMutatedUnderLock ==
  /\ \A t \in Clients : pc[t] = "runner_test" => lock = t
  /\ \A i \in Isolates : Cardinality(returned[i]) <= 1

\* Every entry of the teardown record for call e2 comes after one for e1.
After(e1, e2) ==
  \A j \in Events(e2) : \E i \in Events(e1) : i < j

\* C19: the destructor schedules Dispose as a high-priority operation on the
\* JS thread and waits for it; Dispose, on the JS thread, frees the bundles,
\* then disposes of the isolate, then runs its locked block; the destructor
\* releases the scheduler, the backends and the lock, in that order, only once
\* Dispose has finished and its operation is completed.
C19_TeardownOrdered ==
  /\ \A o \in DisposeOps :
       /\ ops[o].kind = "main"
       /\ ops[o].priority = G_PRIORITY_HIGH
  /\ \A k \in DOMAIN teardown :
       teardown[k].ev \in {"gum_v8_bundle_free", "isolate->Dispose",
                           "locked block", "V8::Dispose", "V8::ShutdownPlatform"}
         => teardown[k].by = JS
  /\ \A k \in Events("gum_v8_bundle_free") :
       \A j \in Events("isolate->Dispose") : k < j
  /\ IsolateDisposed => \A b \in Bundles : bundles[b] = "null"
  /\ After("isolate->Dispose", "locked block")
  /\ After("locked block", "V8::Dispose")
  /\ After("V8::Dispose", "V8::ShutdownPlatform")
  /\ After("V8::ShutdownPlatform", "g_object_unref")
  /\ After("g_object_unref", "delete")
  /\ After("delete", "g_mutex_clear")
  /\ Events("g_object_unref") # {} => \A o \in DisposeOps : ops[o].completed

\* The destructor has waited for Dispose, which freed a bundle created on
\* demand, and has cleared the lock.
C19_Witness ==
  /\ pc[Destroyer] = "dtor_done"
  /\ Events("g_mutex_clear") # {}
  /\ \E k \in Events("gum_v8_bundle_free") : teardown[k].what = "objc_bundle"
  /\ \E o \in DisposeOps : ops[o].state = "Completed" /\ ops[o].runs = 1

\* The release callback of o's source has been called and has not erased o
\* yet.
Releasing(o) ==
  \E t \in Threads : arg[t] = o /\ pc[t] \in {"release_lock", "release_erase"}

\* C20: a foreground operation is in js_operations from the return of
\* ScheduleOnJSThread until the release callback of its source erases it,
\* which comes after the source has fired or Cancel has destroyed it, and is
\* not in it afterwards; it is in it all the time its work runs.
C20_OutstandingUntilRelease ==
  \A o \in OpIds :
    ops[o].kind = "main" =>
      /\ ops[o].source \in {"attached", "queued", "dispatching",
                             "dispatching_destroyed"}
           => o \in js_operations
      /\ ops[o].source = "destroyed" => (o \in js_operations <=> Releasing(o))
      /\ ops[o].source = "new" => o \notin js_operations
      /\ Active(o) > 0 => o \in js_operations

\* The work of a foreground operation is running, Cancel has destroyed its
\* source meanwhile, and the operation is still outstanding.
C20_Witness ==
  \E o \in OpIds :
    /\ ops[o].kind = "main"
    /\ Active(o) > 0
    /\ ops[o].source = "dispatching_destroyed"
    /\ o \in js_operations

\* The places inside a GumV8PlatformLocker scope of ScheduleOnJSThreadDelayed,
\* ReleaseMainContextOperation, Perform, Cancel and Await.
LockedPcs ==
  {"schedule_insert", "release_erase", "perform_mark", "cancel_mark",
   "await_check"}

\* C21: js_operations is inserted into and erased from, and the completed
\* flag of an operation is written, only in a step of the thread that holds
\* the Platform lock; a thread inside one of these critical sections holds
\* the lock, and no two threads are inside one at the same time.
C21_MutationsUnderLock ==
  /\ [](/\ \A t \in Threads : pc[t] \in LockedPcs => lock = t
        /\ Cardinality({t \in Threads : pc[t] \in LockedPcs}) <= 1)
  /\ [][(\/ js_operations' # js_operations
         \/ \E o \in OpIds : ops'[o].completed # ops[o].completed)
          => (lock \in Threads /\ pc'[lock] # pc[lock])]_vars

\* The JS thread is about to set completed under the lock while a client
\* that cancelled the same operation waits for the lock.
C21_Witness ==
  /\ pc[JS] = "perform_mark"
  /\ lock = JS
  /\ \E t \in Clients : pc[t] = "cancel_lock" /\ arg[t] = arg[JS]

\* Where a thread executes the work of an operation or calls into the engine
\* from Dispose.
EnginePcs ==
  {"perform_func", "dispose_bundles", "dispose_isolate", "dispose_v8",
   "dispose_shutdown"}

\* C22: a thread that executes the work of an operation, or that disposes of
\* the bundles, the isolate or the engine in Dispose, does not hold the
\* Platform lock; Perform takes the lock only when the work has returned.
C22_NoLockDuringWork ==
  \A t \in Threads : pc[t] \in EnginePcs => lock # t

\* The JS thread is inside Dispose, past its locked block, shutting the
\* engine down, a pool thread executes work, and the thread in the destructor
\* holds the lock.
C22_Witness ==
  /\ pc[JS] \in {"dispose_v8", "dispose_shutdown"}
  /\ pc[Worker] = "perform_func"
  /\ lock = Destroyer

\* The pool operations the hop of delayed call c has submitted.
HopChildren(c) == {o \in OpIds : ops[o].kind = "pool" /\ ops[o].parent = c.hop}

\* Pool operation o was constructed by a ScheduleOnThreadPoolDelayed call that
\* has not ended yet.
InDelayedCall(o) ==
  \E t \in Threads : pc[t] = "delayed_insert" /\ arg[t] - 1 = o

\* C23: in a ScheduleOnThreadPoolDelayed call func is pushed on the pool by
\* the hop when it fires, once, and not before; func runs at most once, on the
\* pool thread and never on the JS thread; and when the call has ended there
\* is no pool operation that has not been pushed on the pool.
C23_TwoHopDispatch ==
  /\ \A k \in DOMAIN delayedCalls :
       LET c == delayedCalls[k] IN
         /\ ops[c.hop].runs = 0 => HopChildren(c) = {}
         /\ Cardinality(HopChildren(c)) <= 1
         /\ \A o \in HopChildren(c) : ops[o].submitted /\ ops[o].runs <= 1
  /\ \A e \in Executors :
       (pc[e] = "perform_func" /\ ops[arg[e]].func = "task") => e = Worker
  /\ \A o \in OpIds :
       (ops[o].kind = "pool" /\ ~InDelayedCall(o)) => ops[o].submitted

\* In this step a thread enters the release callback of o's source.
ReleaseBegins(o) ==
  \E t \in Threads :
    pc'[t] = "release_lock" /\ pc[t] # "release_lock" /\ arg'[t] = o

\* In this step the release callback of o's source erases o and deletes the
\* reference the source owned.
ReleaseEnds(o) ==
  \E t \in Threads :
    pc[t] = "release_erase" /\ pc'[t] # "release_erase" /\ arg[t] = o

\* C24: the release callback of a foreground operation's source is called in
\* the step in which the source is gone, having fired or having been destroyed
\* by Cancel, and in no other, so once; a destroyed source stays destroyed,
\* also when Cancel comes during or after Perform or again; the operation is
\* erased from js_operations by that callback and by nothing else; and the
\* reference the source owns is not dropped while the source is alive.
C24_SourceReferenceReleasedOnce ==
  /\ [](\A o \in OpIds :
          /\ Releasing(o) => ops[o].source = "destroyed"
          /\ Cardinality({t \in Threads :
                arg[t] = o /\ pc[t] \in {"release_lock", "release_erase"}}) <= 1)
  /\ [][\A o \in OpIds :
          /\ ReleaseBegins(o) <=>
                (ops[o].source # "destroyed" /\ ops'[o].source = "destroyed")
          /\ ops[o].source = "destroyed" => ops'[o].source = "destroyed"
          /\ ReleaseEnds(o) => o \notin js_operations'
          /\ (o \in js_operations /\ o \notin js_operations') => ReleaseEnds(o)]_vars

\* Cancel was called while the work was running and again afterwards by
\* another thread; the operation has been released and erased.
C24_Witness ==
  \E o \in OpIds :
    /\ ops[o].kind = "main"
    /\ ops[o].runs = 1
    /\ ops[o].source = "destroyed"
    /\ o \notin js_operations
    /\ Cardinality({t \in Clients :
          arg[t] = o /\ pc[t] \in {"cancel_lock", "cancel_mark"}}) = 2

\* C25: when an Await call returns, the work of the operation is not being
\* executed: it has returned or it will never start, also when Cancel was
\* called on a foreground operation whose Perform had begun.
C25_AwaitReturnsAfterWork ==
  \A t \in Clients : pc[t] = "await_return" => Active(arg[t]) = 0

\* C27: the work of a foreground operation scheduled before the destructor
\* scheduled its dispose operation does not start once the dispose operation
\* has been dispatched: it has run before Dispose began or it never runs.
C27_NoWorkAfterDispose ==
  \A d \in DisposeOps : \A o \in OpIds :
    (o < d /\ ops[o].kind = "main" /\ Active(o) > 0) => ops[d].runs = 0

\* Thread t is inside Cancel on a foreground operation: in the release
\* callback g_source_destroy called, or at or inside the locker of Cancel.
InCancel(t) ==
  pc[t] \in {"release_lock", "release_erase", "cancel_lock", "cancel_mark"}

\* In this step thread t calls g_source_destroy in Cancel.
CancelDestroys(t) ==
  pc[t] = "idle" /\ pc'[t] \in {"release_lock", "cancel_lock", "cancel_mark"}

\* C28: Cancel on a foreground operation calls g_source_destroy without the
\* Platform lock and takes the lock afterwards, so a thread that enters the
\* release callback from Cancel does not hold the lock the callback asks for;
\* and under fair scheduling every Cancel returns.
C28_CancelTerminates ==
  /\ [](\A t \in Clients : pc[t] = "release_lock" => lock # t)
  /\ [][\A t \in Clients : CancelDestroys(t) => lock # t /\ lock' = lock]_vars
  /\ \A t \in Clients : InCancel(t) ~> (pc[t] = "idle")

\* A thread is in the release callback that g_source_destroy called from
\* Cancel and waits for the Platform lock, which another thread holds.
C28_Witness ==
  \E t \in Clients :
    /\ pc[t] = "release_lock"
    /\ lock \in Threads \ {t}

====
